---------------------------- MODULE Spec2Model ----------------------------
(***************************************************************************)
(* Credential rotation scheduler and retry executor of                     *)
(* src/gemini_manager.py (GeminiKeyManager, call_orchestrator).            *)
(*                                                                         *)
(* Each caller is a thread running call_orchestrator/call_with_retry; the  *)
(* program counter pc[t] names the statement the thread executes next.     *)
(* Sections under `with self.lock` are entered by an acquire step and left *)
(* by the step that executes the return (or the last statement).           *)
(* The clock is observable only where the code reads time.time(); every    *)
(* such read first lets an arbitrary amount of time (from TimeSteps) pass. *)
(*                                                                         *)
(* Spec runs the callers concurrently.  SpecScenario, SpecPurpose and      *)
(* SpecStatus run one caller: on a pool of three credentials with its      *)
(* selections logged, with every purpose, and beside a monitor thread      *)
(* that calls get_status.                                                  *)
(***************************************************************************)
EXTENDS Integers, Sequences, FiniteSets, TLC

\* ------------------------------------------------------------- bounds
MaxKeys == 2
NumCallers == 2
MaxCalls == 2
MaxTime == 61
MaxLog == 4

\* ------------------------------------------------- program constants
MAX_RETRIES == 3
ERROR_THRESHOLD == 3
RATE_LIMIT_COOLDOWN == 60
RESOURCE_COOLDOWN == 300
SLEEP_SECONDS == 1

Callers == 1..NumCallers
NoOne == 0
Unbound == 0 - 1

\* KeyStatus (EXHAUSTED is declared by the enum and never assigned)
KeyStatus == {"available", "rate_limited", "exhausted", "error"}

\* APIKey(key=k, index=i): the dataclass defaults
APIKey == [status |-> "available", last_used |-> 0, error_count |-> 0,
           cooldown_until |-> 0]

\* Amounts of time that may pass before a clock read.
TimeSteps == {0, RATE_LIMIT_COOLDOWN}

\* Words of an exception text that the handler of call_with_retry looks for.
\* The text raised by get_model, "All API keys exhausted or rate limited",
\* lower-cased, contains "exhausted" and "rate".
PoolExhaustedText == {"exhausted", "rate"}
\* Texts of the failures of the external service: a rate-limit signal, a
\* resource-exhaustion signal, one that carries both, anything else.
ServiceFailureTexts ==
    {{"429", "quota"}, {"resource", "exhausted"},
     {"429", "resource", "exhausted"}, {}}

\* self.models
Models ==
    [p \in {"orchestrator", "vision", "fallback", "creative"}
        |-> "gemini-3-flash-preview"] @@ ("pro" :> "gemini-3-pro-preview")

VARIABLES
    nkeys,          \* len(API_KEYS), fixed at construction
    keys,           \* self.keys: index -> APIKey fields
    current_index,  \* self.current_index
    lock,           \* self.lock: the caller holding it, or NoOne
    clients,        \* self.clients: index -> handle id, 0 when absent
    made,           \* number of genai.Client objects constructed per index
    now,            \* lower bound of the clock: time.time() returns >= now
    calls,          \* number of call_orchestrator calls started
    pc,             \* per caller: statement to execute next
    key,            \* per caller: local `key` of call_with_retry
    attempt,        \* per caller: loop variable of call_with_retry
    exc,            \* per caller: text of the exception being handled
    current_time,   \* per caller: local of get_next_key
    attempts,       \* per caller: local of get_next_key
    cand,           \* per caller: index read at line 55 / `key` of get_model
    wake,           \* per caller: time before which its time.sleep cannot end
    result,         \* per caller: outcome of its latest call
    start,          \* history: cursor when the current all-AVAILABLE run began
    picks,          \* history: indices returned during that run
    deadline,       \* history: per key, latest t + C over its rate-limit marks
    streak,         \* history: per key, consecutive mark_error calls (3 sticks)
    invoked,        \* history: per caller, generate_content calls of its call
    scan_from,      \* history: per caller, cursor when its get_next_key began
    mark_errors,    \* history: per key, mark_error calls since its last
                    \* mark_success or recovery (ERROR_THRESHOLD sticks)
    missed,         \* history: per key, get_next_key calls completed since
                    \* the last one that examined it
    models,         \* self.models
    purpose,        \* per caller: parameter `purpose` of call_with_retry
    model_name,     \* per caller: local `model_name` of call_with_retry
    logging,        \* history: whether selections are being logged
    log,            \* history: the selections made, with their outcomes
    status_i,       \* get_status: index of the entry being built, or Unbound
    status_read,    \* get_status: k.status.value read for that entry, or "none"
    snapshot,       \* get_status: the entries built so far, then the result
    held            \* history: per key, the (status, error_count) pairs it
                    \* held since the running get_status call began

vars == <<nkeys, keys, current_index, lock, clients, made, now, calls, pc, key,
          attempt, exc, current_time, attempts, cand, wake, result, start,
          picks, deadline, streak, invoked, scan_from, mark_errors, missed,
          models, purpose, model_name, logging, log, status_i, status_read, snapshot, held>>

shared == <<keys, current_index, lock, clients, made, now>>
locals == <<key, attempt, exc, current_time, attempts, cand, wake, result>>
history == <<start, picks, deadline, streak, invoked, scan_from, mark_errors,
             missed>>
scenario == <<logging, log>>
monitor == <<status_i, status_read, snapshot>>

Max(a, b) == IF a >= b THEN a ELSE b

Indices == 0..(nkeys - 1)

\* key_manager = GeminiKeyManager(API_KEYS) if API_KEYS else None
key_manager == IF nkeys > 0 THEN "GeminiKeyManager" ELSE "None"

AllAvailable(ks) == \A i \in DOMAIN ks : ks[i].status = "available"

\* ---------------------------------------------------------------- lock
LockIgnored(t) == TRUE
\* threading.Lock.acquire: proceeds only when no caller holds the lock
LockFree(t) == lock = NoOne

LockKept(t) == t
\* leaving a `with self.lock:` block releases the lock
Released(t) == NoOne

\* ------------------------------------------------------------- helpers
NextIndexStuck(i) == i
NextIndexNoWrap(i) == i + 1
NextIndexTwice(i) == (i + 2) % nkeys
\* (self.current_index + 1) % len(self.keys)
NextIndex(i) == (i + 1) % nkeys

CooldownElapsedAlways(ct, k) == TRUE
\* current_time > key.cooldown_until
CooldownElapsed(ct, k) == ct > keys[k].cooldown_until

\* key.status = AVAILABLE; key.error_count = 0  (get_next_key, recovery)
Recovered(rec) == [rec EXCEPT !.status = "available", !.error_count = 0]

\* mark_rate_limited: status, cooldown_until, error_count += 1
MarkedRateLimited(rec, tm, cooldown) ==
    [rec EXCEPT !.status = "rate_limited",
                !.cooldown_until = tm + cooldown,
                !.error_count = @ + 1]

MarkedErrorTwice(rec) == [rec EXCEPT !.error_count = @ + 2]
MarkedErrorNoThreshold(rec) == [rec EXCEPT !.error_count = @ + 1]
\* mark_error: error_count += 1; status = ERROR from the third on
MarkedError(rec) ==
    [rec EXCEPT !.error_count = @ + 1,
                !.status = IF rec.error_count + 1 >= ERROR_THRESHOLD
                           THEN "error" ELSE @]

MarkedSuccessAvailable(rec, tm) ==
    [rec EXCEPT !.last_used = tm, !.error_count = 0, !.status = "available"]
\* mark_success: last_used = time.time(); error_count = 0
MarkedSuccess(rec, tm) == [rec EXCEPT !.last_used = tm, !.error_count = 0]

ClassifyShort(text) ==
    IF text \cap {"quota", "rate", "429", "resource", "exhausted"} # {}
    THEN RATE_LIMIT_COOLDOWN ELSE 0
\* The handler's branch: the cooldown to apply, or 0 for mark_error.
Classify(text) ==
    IF text \cap {"quota", "rate", "429"} # {} THEN RATE_LIMIT_COOLDOWN
    ELSE IF text \cap {"resource", "exhausted"} # {} THEN RESOURCE_COOLDOWN
    ELSE 0

LoopContinuesOnceMore(a) == a < MAX_RETRIES
\* `for attempt in range(max_retries)`: another iteration follows attempt a
LoopContinues(a) == a + 1 < MAX_RETRIES

ResolveToFallback(p) == models["fallback"]
\* self.models.get(purpose, self.models["fallback"])
Resolve(p) == IF p \in DOMAIN models THEN models[p] ELSE models["fallback"]

\* A time.time() read after d more time units have passed.
Clock(d) == now + d
ClockOK(d) == d = 0 \/ Clock(d) <= MaxTime

CloseRun == start' = Unbound /\ picks' = <<>>

\* What get_status reads of a credential.
Pair(rec) == [status |-> rec.status, error_count |-> rec.error_count]

\* held, after credential k went through the values recs (one per assignment
\* of the operation) while a get_status call may be running
Held(k, recs) ==
    IF status_i = Unbound THEN held
    ELSE [held EXCEPT ![k] = @ \cup {Pair(r) : r \in recs}]

\* missed, after a get_next_key call that examined the credentials in seen
Missed(seen) ==
    [i \in Indices |-> IF i \in seen THEN 0 ELSE missed[i] + 1]

\* The credentials a scan examined that began at cursor c and read n of them.
Examined(c, n) == {(c + j) % nkeys : j \in 0..(n - 1)}

\* log, after get_next_key returned credential k on the clock reading ct
Selected(k, ct) ==
    IF logging /\ Len(log) < MaxLog
    THEN Append(log, [key |-> k, at |-> ct, outcome |-> {"pending"},
                      marked_at |-> Unbound])
    ELSE log

\* log, after generate_content answered (o = {"success"}) or failed with text o
Answered(o) ==
    IF logging /\ Len(log) > 0 /\ log[Len(log)].outcome = {"pending"}
    THEN [log EXCEPT ![Len(log)].outcome = o]
    ELSE log

\* log, after a mark operation was applied to credential k at time tm
Marked(k, tm) ==
    IF logging /\ Len(log) > 0 /\ log[Len(log)].key = k
       /\ log[Len(log)].outcome # {"pending"}
       /\ log[Len(log)].marked_at = Unbound
    THEN [log EXCEPT ![Len(log)].marked_at = tm]
    ELSE log

\* GeminiKeyManager.__init__ over a list of nkeys credentials, and callers
\* that have not called yet
Constructed ==
    /\ keys = [i \in 0..(nkeys - 1) |-> APIKey]
    /\ current_index = 0
    /\ lock = NoOne
    /\ clients = [i \in 0..(nkeys - 1) |-> 0]
    /\ made = [i \in 0..(nkeys - 1) |-> 0]
    /\ now = 0
    /\ calls = 0
    /\ pc = [t \in Callers |-> "idle"]
    /\ key = [t \in Callers |-> Unbound]
    /\ attempt = [t \in Callers |-> 0]
    /\ exc = [t \in Callers |-> {}]
    /\ current_time = [t \in Callers |-> 0]
    /\ attempts = [t \in Callers |-> 0]
    /\ cand = [t \in Callers |-> Unbound]
    /\ wake = [t \in Callers |-> 0]
    /\ result = [t \in Callers |-> "NoResult"]
    /\ start = Unbound
    /\ picks = <<>>
    /\ deadline = [i \in 0..(nkeys - 1) |-> 0]
    /\ streak = [i \in 0..(nkeys - 1) |-> 0]
    /\ invoked = [t \in Callers |-> 0]
    /\ scan_from = [t \in Callers |-> Unbound]
    /\ mark_errors = [i \in 0..(nkeys - 1) |-> 0]
    /\ missed = [i \in 0..(nkeys - 1) |-> 0]
    /\ models = Models
    /\ purpose = [t \in Callers |-> ""]
    /\ model_name = [t \in Callers |-> ""]
    /\ log = <<>>
    /\ status_i = Unbound
    /\ status_read = "none"
    /\ snapshot = <<>>
    /\ held = [i \in 0..(nkeys - 1) |-> {}]

Init ==
    /\ nkeys \in 0..MaxKeys
    /\ logging = FALSE
    /\ Constructed


\* ------------------------------------------------- call_orchestrator
ManagerMissingNever == FALSE
\* `if not key_manager:`
ManagerMissing == key_manager = "None"

\* call_with_retry(p, ...) up to the first statement of its loop
call_with_retry(t, p) ==
    /\ pc[t] = "idle"
    /\ calls < MaxCalls
    /\ calls' = calls + 1
    /\ result' = [result EXCEPT ![t] = "NoResult"]
    /\ pc' = [pc EXCEPT ![t] = "get_next_key"]
    /\ key' = [key EXCEPT ![t] = Unbound]
    /\ attempt' = [attempt EXCEPT ![t] = 0]
    /\ purpose' = [purpose EXCEPT ![t] = p]
    /\ UNCHANGED <<nkeys, shared, exc, current_time, attempts, cand, wake,
                   history, models, model_name, scenario, monitor, held>>

\* call_orchestrator / call_vision: without a manager it returns None at
\* once, else it is call_with_retry("orchestrator", ...)
call_orchestrator(t) ==
    IF ManagerMissing
    THEN /\ pc[t] = "idle"
         /\ calls < MaxCalls
         /\ calls' = calls + 1
         /\ result' = [result EXCEPT ![t] = "None"]
         /\ UNCHANGED <<nkeys, shared, pc, key, attempt, exc, current_time,
                        attempts, cand, wake, history, models, purpose,
                        model_name, scenario, monitor, held>>
    ELSE call_with_retry(t, "orchestrator")

\* ------------------------------------------------------ get_next_key
\* lines 50-52: acquire the lock, read the clock, attempts = 0
get_next_key_enter(t) ==
    /\ pc[t] = "get_next_key"
    /\ LockFree(t)
    /\ \E d \in TimeSteps :
        /\ ClockOK(d)
        /\ now' = Clock(d)
        /\ current_time' = [current_time EXCEPT ![t] = Clock(d)]
    /\ lock' = t
    /\ attempts' = [attempts EXCEPT ![t] = 0]
    /\ pc' = [pc EXCEPT ![t] = "while"]
    /\ scan_from' = [scan_from EXCEPT ![t] = current_index]
    /\ IF AllAvailable(keys) /\ (start = Unbound \/ Len(picks) >= nkeys)
       THEN start' = current_index /\ picks' = <<>>
       ELSE UNCHANGED <<start, picks>>
    /\ UNCHANGED <<nkeys, keys, current_index, clients, made, calls, key,
                   attempt, exc, cand, wake, result, deadline, streak,
                   invoked, mark_errors, missed, models, purpose, model_name,
                   scenario, monitor, held>>

\* lines 54-55 and 69, then 97-98: the loop test; read the key at the cursor,
\* or return None, on which get_model raises
get_next_key_while(t) ==
    /\ pc[t] = "while"
    /\ IF attempts[t] < nkeys
       THEN /\ cand' = [cand EXCEPT ![t] = current_index]
            /\ pc' = [pc EXCEPT ![t] = "advance"]
            /\ UNCHANGED <<lock, exc, current_time, attempts, start, picks,
                           scan_from, missed>>
       ELSE /\ lock' = Released(t)
            /\ missed' = Missed(Examined(scan_from[t], attempts[t]))
            /\ exc' = [exc EXCEPT ![t] = PoolExhaustedText]
            /\ pc' = [pc EXCEPT ![t] = "except"]
            /\ current_time' = [current_time EXCEPT ![t] = 0]
            /\ attempts' = [attempts EXCEPT ![t] = 0]
            /\ scan_from' = [scan_from EXCEPT ![t] = Unbound]
            /\ CloseRun
            /\ UNCHANGED cand
    /\ UNCHANGED <<nkeys, keys, current_index, clients, made, now, calls, key,
                   attempt, wake, result, deadline, streak, invoked,
                   mark_errors, models, purpose, model_name, scenario,
                   monitor, held>>

\* lines 56-67: advance the cursor, then return the key, recover it, or go on
get_next_key_advance(t) ==
    /\ pc[t] = "advance"
    /\ current_index' = NextIndex(current_index)
    /\ LET k == cand[t]
           ret == /\ lock' = Released(t)
                  /\ pc' = [pc EXCEPT ![t] = "get_client"]
                  /\ current_time' = [current_time EXCEPT ![t] = 0]
                  /\ attempts' = [attempts EXCEPT ![t] = 0]
                  /\ scan_from' = [scan_from EXCEPT ![t] = Unbound]
                  /\ log' = Selected(k, current_time[t])
                  /\ missed' = Missed(Examined(scan_from[t],
                                                attempts[t] + 1))
                  /\ IF start # Unbound /\ AllAvailable(keys)
                        /\ Len(picks) < nkeys
                     THEN picks' = Append(picks, k) /\ start' = start
                     ELSE CloseRun
       IN  IF keys[k].status = "available"
           THEN ret /\ keys' = keys /\ held' = held
                    /\ mark_errors' = mark_errors
           ELSE IF keys[k].status = "rate_limited"
                   /\ CooldownElapsed(current_time[t], k)
           THEN /\ ret
                /\ keys' = [keys EXCEPT ![k] = Recovered(@)]
                /\ mark_errors' = [mark_errors EXCEPT ![k] = 0]
                /\ held' = Held(k, {[keys[k] EXCEPT !.status = "available"],
                                    Recovered(keys[k])})
           ELSE /\ attempts' = [attempts EXCEPT ![t] = attempts[t] + 1]
                /\ pc' = [pc EXCEPT ![t] = "while"]
                /\ UNCHANGED <<keys, lock, current_time, start, picks,
                               scan_from, log, held, mark_errors, missed>>
    /\ UNCHANGED <<nkeys, clients, made, now, calls, key, attempt, exc, cand,
                   wake, result, deadline, streak, invoked, models, purpose,
                   model_name, logging, monitor>>

\* -------------------------------------------------------- get_client
\* line 73, and lines 75, 101-103, 109 when the handle is cached
get_client(t) ==
    /\ pc[t] = "get_client"
    /\ IF clients[cand[t]] = 0
       THEN /\ pc' = [pc EXCEPT ![t] = "new_client"]
            /\ UNCHANGED <<key, cand, model_name>>
       ELSE /\ pc' = [pc EXCEPT ![t] = "generate_content"]
            /\ key' = [key EXCEPT ![t] = cand[t]]
            /\ cand' = [cand EXCEPT ![t] = Unbound]
            /\ model_name' = [model_name EXCEPT ![t] = Resolve(purpose[t])]
    /\ UNCHANGED <<nkeys, shared, calls, attempt, exc, current_time, attempts,
                   wake, result, history, models, purpose, scenario, monitor,
                   held>>

\* lines 74-75, 101-103, 109: construct and store a handle
new_client(t) ==
    /\ pc[t] = "new_client"
    /\ made' = [made EXCEPT ![cand[t]] = made[cand[t]] + 1]
    /\ clients' = [clients EXCEPT ![cand[t]] = made[cand[t]] + 1]
    /\ key' = [key EXCEPT ![t] = cand[t]]
    /\ cand' = [cand EXCEPT ![t] = Unbound]
    /\ model_name' = [model_name EXCEPT ![t] = Resolve(purpose[t])]
    /\ pc' = [pc EXCEPT ![t] = "generate_content"]
    /\ UNCHANGED <<nkeys, keys, current_index, lock, now, calls, attempt, exc,
                   current_time, attempts, wake, result, history, models,
                   purpose, scenario, monitor, held>>

\* ------------------------------------------------- call_with_retry
\* lines 111-115: the external service answers or fails
generate_content(t) ==
    /\ pc[t] = "generate_content"
    /\ invoked' = [invoked EXCEPT ![t] = @ + 1]
    /\ \/ /\ pc' = [pc EXCEPT ![t] = "mark_success"]
          /\ exc' = exc
          /\ log' = Answered({"success"})
       \/ \E text \in ServiceFailureTexts :
          /\ exc' = [exc EXCEPT ![t] = text]
          /\ pc' = [pc EXCEPT ![t] = "except"]
          /\ log' = Answered(text)
    /\ UNCHANGED <<nkeys, shared, calls, key, attempt, current_time, attempts,
                   cand, wake, result, start, picks, deadline, streak,
                   scan_from, mark_errors, missed, models, purpose,
                   model_name, logging, monitor, held>>

\* line 90: mark_success acquires the lock
mark_success_enter(t) ==
    /\ pc[t] = "mark_success"
    /\ LockFree(t)
    /\ lock' = t
    /\ pc' = [pc EXCEPT ![t] = "mark_success_body"]
    /\ UNCHANGED <<nkeys, keys, current_index, clients, made, now, calls,
                   locals, history, models, purpose, model_name, scenario,
                   monitor, held>>

\* lines 91-92, then 118: return response.text
mark_success(t) ==
    /\ pc[t] = "mark_success_body"
    /\ \E d \in TimeSteps :
        /\ ClockOK(d)
        /\ now' = Clock(d)
        /\ keys' = [keys EXCEPT ![key[t]] = MarkedSuccess(@, Clock(d))]
        /\ held' = Held(key[t], {MarkedSuccess(keys[key[t]], Clock(d))})
        /\ log' = Marked(key[t], Clock(d))
    /\ lock' = Released(t)
    /\ streak' = [streak EXCEPT
                    ![key[t]] = IF @ >= ERROR_THRESHOLD THEN @ ELSE 0]
    /\ result' = [result EXCEPT ![t] = "text"]
    /\ pc' = [pc EXCEPT ![t] = "idle"]
    /\ key' = [key EXCEPT ![t] = Unbound]
    /\ attempt' = [attempt EXCEPT ![t] = 0]
    /\ invoked' = [invoked EXCEPT ![t] = 0]
    /\ mark_errors' = [mark_errors EXCEPT ![key[t]] = 0]
    /\ purpose' = [purpose EXCEPT ![t] = ""]
    /\ model_name' = [model_name EXCEPT ![t] = ""]
    /\ IF AllAvailable(keys') THEN UNCHANGED <<start, picks>> ELSE CloseRun
    /\ UNCHANGED <<nkeys, current_index, clients, made, calls, exc,
                   current_time, attempts, cand, wake, deadline, scan_from,
                   missed, models, logging, monitor>>

\* lines 120-128 up to the call of a mark operation: evaluating the argument
\* `key` raises UnboundLocalError when no get_model call of this
\* call_with_retry has returned yet; the error leaves call_with_retry.
except_handler(t) ==
    /\ pc[t] = "except"
    /\ IF key[t] = Unbound
       THEN /\ result' = [result EXCEPT ![t] = "UnboundLocalError"]
            /\ pc' = [pc EXCEPT ![t] = "idle"]
            /\ exc' = [exc EXCEPT ![t] = {}]
            /\ attempt' = [attempt EXCEPT ![t] = 0]
            /\ purpose' = [purpose EXCEPT ![t] = ""]
            /\ lock' = lock
       ELSE /\ LockFree(t)
            /\ lock' = t
            /\ pc' = [pc EXCEPT ![t] = IF Classify(exc[t]) > 0
                                       THEN "mark_rate_limited"
                                       ELSE "mark_error"]
            /\ UNCHANGED <<result, exc, attempt, purpose>>
    /\ UNCHANGED <<nkeys, keys, current_index, clients, made, now, calls, key,
                   current_time, attempts, cand, wake, history, models,
                   model_name, scenario, monitor, held>>

\* lines 79-81
mark_rate_limited(t) ==
    /\ pc[t] = "mark_rate_limited"
    /\ \E d \in TimeSteps :
        /\ ClockOK(d)
        /\ now' = Clock(d)
        /\ keys' = [keys EXCEPT
             ![key[t]] = MarkedRateLimited(@, Clock(d), Classify(exc[t]))]
        /\ held' = Held(key[t],
             {[keys[key[t]] EXCEPT !.status = "rate_limited"],
              MarkedRateLimited(keys[key[t]], Clock(d), Classify(exc[t]))})
        /\ log' = Marked(key[t], Clock(d))
        /\ deadline' = [deadline EXCEPT
             ![key[t]] = Max(@, Clock(d) + Classify(exc[t]))]
        /\ wake' = [wake EXCEPT ![t] = Clock(d) + SLEEP_SECONDS]
    /\ lock' = Released(t)
    /\ streak' = [streak EXCEPT
                    ![key[t]] = IF @ >= ERROR_THRESHOLD THEN @ ELSE 0]
    /\ exc' = [exc EXCEPT ![t] = {}]
    /\ pc' = [pc EXCEPT ![t] = "sleep"]
    /\ CloseRun
    /\ UNCHANGED <<nkeys, current_index, clients, made, calls, key, attempt,
                   current_time, attempts, cand, result, invoked, scan_from,
                   mark_errors, missed, models, purpose, model_name, logging,
                   monitor>>

\* lines 85-87
mark_error(t) ==
    /\ pc[t] = "mark_error"
    /\ keys' = [keys EXCEPT ![key[t]] = MarkedError(@)]
    /\ held' = Held(key[t], {[keys[key[t]] EXCEPT !.error_count = @ + 1],
                             MarkedError(keys[key[t]])})
    /\ log' = Marked(key[t], now)
    /\ streak' = [streak EXCEPT
                    ![key[t]] = IF @ >= ERROR_THRESHOLD THEN @ ELSE @ + 1]
    /\ mark_errors' = [mark_errors EXCEPT
                         ![key[t]] = IF @ >= ERROR_THRESHOLD THEN @ ELSE @ + 1]
    /\ wake' = [wake EXCEPT ![t] = now + SLEEP_SECONDS]
    /\ lock' = Released(t)
    /\ exc' = [exc EXCEPT ![t] = {}]
    /\ pc' = [pc EXCEPT ![t] = "sleep"]
    /\ IF AllAvailable(keys') THEN UNCHANGED <<start, picks>> ELSE CloseRun
    /\ UNCHANGED <<nkeys, current_index, clients, made, now, calls, key,
                   attempt, current_time, attempts, cand, result, deadline,
                   invoked, scan_from, missed, models, purpose, model_name,
                   logging, monitor>>

\* line 131, then the loop of line 107 and line 133; the sleep ends no
\* earlier than SLEEP_SECONDS after it began
sleep(t) ==
    /\ pc[t] = "sleep"
    /\ now' = Max(now, wake[t])
    /\ wake' = [wake EXCEPT ![t] = 0]
    /\ IF LoopContinues(attempt[t])
       THEN /\ attempt' = [attempt EXCEPT ![t] = attempt[t] + 1]
            /\ pc' = [pc EXCEPT ![t] = "get_next_key"]
            /\ UNCHANGED <<result, key, invoked, purpose, model_name>>
       ELSE /\ attempt' = [attempt EXCEPT ![t] = 0]
            /\ pc' = [pc EXCEPT ![t] = "idle"]
            /\ key' = [key EXCEPT ![t] = Unbound]
            /\ result' = [result EXCEPT ![t] = "None"]
            /\ invoked' = [invoked EXCEPT ![t] = 0]
            /\ purpose' = [purpose EXCEPT ![t] = ""]
            /\ model_name' = [model_name EXCEPT ![t] = ""]
    /\ UNCHANGED <<nkeys, keys, current_index, lock, clients, made, calls,
                   exc, current_time, attempts, cand, start, picks, deadline,
                   streak, scan_from, mark_errors, missed, models, scenario,
                   monitor, held>>

\* ------------------------------------------------------- get_status
\* line 136: the comprehension starts over self.keys
get_status_begin ==
    /\ key_manager = "GeminiKeyManager"
    /\ status_i = Unbound
    /\ status_i' = 0
    /\ status_read' = "none"
    /\ snapshot' = <<>>
    /\ held' = [i \in Indices |-> {Pair(keys[i])}]
    /\ UNCHANGED <<nkeys, shared, calls, pc, locals, history, models, purpose,
                   model_name, scenario>>

\* line 136: k.status.value is evaluated for the entry of k
get_status_status ==
    /\ status_i # Unbound
    /\ status_read = "none"
    /\ status_read' = keys[status_i].status
    /\ UNCHANGED <<nkeys, shared, calls, pc, locals, history, models, purpose,
                   model_name, scenario, status_i, snapshot, held>>

\* line 136: k.error_count is evaluated and the entry "key_<index + 1>" is
\* stored; after the last credential the dict is returned
get_status_error_count ==
    /\ status_i # Unbound
    /\ status_read # "none"
    /\ snapshot' = Append(snapshot,
                          [status |-> status_read,
                           error_count |-> keys[status_i].error_count])
    /\ status_read' = "none"
    /\ status_i' = IF status_i + 1 < nkeys THEN status_i + 1 ELSE Unbound
    /\ UNCHANGED <<nkeys, shared, calls, pc, locals, history, models, purpose,
                   model_name, scenario, held>>

\* One step of caller t.
Step(t) ==
    \/ call_orchestrator(t)
    \/ get_next_key_enter(t)
    \/ get_next_key_while(t)
    \/ get_next_key_advance(t)
    \/ get_client(t)
    \/ new_client(t)
    \/ generate_content(t)
    \/ mark_success_enter(t)
    \/ mark_success(t)
    \/ except_handler(t)
    \/ mark_rate_limited(t)
    \/ mark_error(t)
    \/ sleep(t)

Next == \E t \in Callers : Step(t)

Spec == Init /\ [][Next]_vars

\* ------------------------------------------------- a single caller
Solo == {1}

\* The scenario pool [A, B, C]; credential A has index 0.
ScenarioPool == <<"A", "B", "C">>

InitScenario ==
    /\ nkeys = Len(ScenarioPool)
    /\ logging = TRUE
    /\ Constructed

NextSolo == \E t \in Solo : Step(t)

\* One caller on the pool [A, B, C], its selections logged.
SpecScenario == InitScenario /\ [][NextSolo]_vars

\* The purposes callers pass: those of self.models and some others.
Purposes == DOMAIN Models \cup {"high-capability", "Pro", "unknown"}

\* A pool with a manager: API_KEYS is not empty.
InitPurpose ==
    /\ nkeys \in 1..MaxKeys
    /\ logging = FALSE
    /\ Constructed

NextPurpose ==
    \E t \in Solo :
        \/ Step(t)
        \/ \E p \in Purposes : call_with_retry(t, p)

\* One caller that also calls key_manager.call_with_retry with any purpose.
SpecPurpose == InitPurpose /\ [][NextPurpose]_vars

NextStatus ==
    \/ \E t \in Solo : Step(t)
    \/ get_status_begin
    \/ get_status_status
    \/ get_status_error_count

\* One caller and a monitor that calls get_status.
SpecStatus == Init /\ [][NextStatus]_vars


\* ===================================================================
\* Properties
\* ===================================================================

\* A step in which caller t's get_next_key returns the key it examined.
Returns(t) == pc[t] = "advance" /\ pc'[t] = "get_client"

\* C1: call_with_retry never lets an exception reach its caller: no call
\* ends with an error raised out of it.
C1_NeverRaises == \A t \in Callers : result[t] # "UnboundLocalError"

\* C2: ERROR is terminal: no step takes a credential out of status ERROR.
C2_ErrorTerminal ==
    [][\A i \in Indices :
          keys[i].status = "error" => keys'[i].status = "error"]_vars

\* C3: a credential marked RATE_LIMITED at time t with cooldown C is not
\* returned by get_next_key at a clock reading before t + C, for every such
\* mark made so far.
C3_NotReturnedBeforeCooldown ==
    [][\A t \in Callers :
          Returns(t) => current_time[t] >= deadline[cand[t]]]_vars

\* C4: a RATE_LIMITED credential examined by a scan whose clock reading is at
\* or after its cooldown_until (t + C of its mark) is returned by that scan,
\* AVAILABLE and with error_count 0.
C4_ReturnedAtCooldownEnd ==
    [][\A t \in Callers :
          (/\ pc[t] = "advance"
           /\ pc'[t] # "advance"
           /\ keys[cand[t]].status = "rate_limited"
           /\ current_time[t] >= keys[cand[t]].cooldown_until)
          => /\ Returns(t)
             /\ keys'[cand[t]].status = "available"
             /\ keys'[cand[t]].error_count = 0]_vars

\* C5: while every credential stays AVAILABLE, consecutive get_next_key calls
\* starting at cursor c return c, c+1, ... (mod N) in that order, and after N
\* of them the cursor is back at c.
C5_RoundRobin ==
    start # Unbound =>
        /\ \A i \in 1..Len(picks) : picks[i] = (start + i - 1) % nkeys
        /\ Len(picks) = nkeys => current_index = start

C5_Witness ==
    /\ nkeys = MaxKeys
    /\ start = 1
    /\ Len(picks) = nkeys

\* C6: after 3 consecutive mark_error calls on a credential with no success
\* in between, its status is ERROR and no later get_next_key returns it.
C6_ThreeErrorsExclude ==
    /\ [](\A i \in Indices :
            streak[i] >= ERROR_THRESHOLD => keys[i].status = "error")
    /\ [][\A t \in Callers :
            Returns(t) => streak[cand[t]] < ERROR_THRESHOLD]_vars

\* C7: with one credential, RATE_LIMITED and not cooled down, a scan that
\* finds nothing does not end the call: call_with_retry goes on through its
\* attempts and the call ends by returning None.
C7_SingleKeyExhaustedReturnsNone ==
    [][\A t \in Callers :
          (/\ nkeys = 1
           /\ keys[0].status = "rate_limited"
           /\ pc[t] = "except"
           /\ exc[t] = PoolExhaustedText)
          => (pc'[t] = "idle" => result'[t] = "None")]_vars

\* C8: with no credentials there is no manager, and a call returns None at
\* once: no caller ever leaves the idle state, selects, builds a handle or
\* reaches the external service, and no call raises.
C8_EmptyPoolFailsAtOnce ==
    nkeys = 0 =>
        /\ key_manager = "None"
        /\ \A t \in Callers :
              /\ pc[t] = "idle"
              /\ result[t] \in {"NoResult", "None"}
              /\ key[t] = Unbound

C8_Witness == nkeys = 0 /\ result[1] = "None" /\ calls = MaxCalls

\* C9: while every credential stays AVAILABLE, the get_next_key calls of
\* concurrent callers return pairwise distinct credentials (up to N of them)
\* and k completed calls leave the cursor advanced by k (mod N).
C9_AtomicSelect ==
    start # Unbound =>
        /\ \A i, j \in 1..Len(picks) : i # j => picks[i] # picks[j]
        /\ (\A t \in Callers : pc[t] # "advance")
              => current_index = (start + Len(picks)) % nkeys

C9_Witness ==
    /\ start # Unbound
    /\ Len(picks) = 2
    /\ pc[1] = "generate_content"
    /\ pc[2] = "generate_content"
    /\ key[1] # key[2]

\* C10: a caller in the external call or in the retry sleep does not hold the
\* lock.
C10_NoLockWhileBlocking ==
    \A t \in Callers : pc[t] \in {"generate_content", "sleep"} => lock # t

C10_Witness ==
    \E t, u \in Callers :
        /\ t # u
        /\ pc[t] \in {"generate_content", "sleep"}
        /\ lock = u
        /\ pc[u] \in {"while", "advance", "mark_success_body",
                      "mark_rate_limited", "mark_error"}

\* C11: the handle cache constructs at most one genai.Client per credential
\* index, whatever the interleaving of concurrent get_client calls.
C11_OneHandlePerKey == \A i \in Indices : made[i] <= 1

\* C12: a call_with_retry call runs at most MAX_RETRIES iterations of its loop
\* and calls the external service at most once per iteration, so at most
\* MAX_RETRIES times; after the first invocation that succeeds the caller only
\* runs mark_success and returns the text, with no further get_next_key or
\* generate_content.
C12_BoundedAttempts ==
    /\ [](\A t \in Callers :
            /\ attempt[t] < MAX_RETRIES
            /\ invoked[t] <= attempt[t] + 1
            /\ invoked[t] <= MAX_RETRIES
            /\ result[t] = "text" => pc[t] = "idle")
    /\ [][\A t \in Callers :
            pc[t] \in {"mark_success", "mark_success_body"} =>
                /\ pc'[t] \in {"mark_success", "mark_success_body", "idle"}
                /\ pc'[t] = "idle" => result'[t] = "text"]_vars

C12_Witness ==
    \E t \in Callers :
        /\ pc[t] = "mark_success"
        /\ attempt[t] = MAX_RETRIES - 1
        /\ invoked[t] = MAX_RETRIES

\* C13: the mark_success step of caller t sets error_count of its credential
\* to 0 and leaves that credential's status and cooldown_until, the cursor and
\* every other credential as they were.
C13_MarkSuccessFrame ==
    [][\A t \in Callers :
          (pc[t] = "mark_success_body" /\ pc'[t] = "idle") =>
              /\ keys'[key[t]].error_count = 0
              /\ keys'[key[t]].status = keys[key[t]].status
              /\ keys'[key[t]].cooldown_until = keys[key[t]].cooldown_until
              /\ current_index' = current_index
              /\ \A i \in Indices \ {key[t]} : keys'[i] = keys[i]]_vars

C13_Witness ==
    \E i \in Indices :
        /\ keys[i].status = "rate_limited"
        /\ keys[i].error_count = 0
        /\ keys[i].last_used > 0

\* C14 as stated: error_count of a credential changes only by a reset to 0 in
\* a mark_success step or by an increase of exactly 1 in a mark_error step.
C14_ErrorCountChanges ==
    [][\A i \in Indices :
          \/ keys'[i].error_count = keys[i].error_count
          \/ /\ keys'[i].error_count = 0
             /\ \E t \in Callers :
                   pc[t] = "mark_success_body" /\ pc'[t] = "idle"
                   /\ key[t] = i
          \/ /\ keys'[i].error_count = keys[i].error_count + 1
             /\ \E t \in Callers :
                   pc[t] = "mark_error" /\ pc'[t] = "sleep" /\ key[t] = i]_vars

\* C14 amended: error_count of a credential changes only by a reset to 0, in
\* a mark_success step or when get_next_key recovers the credential from
\* RATE_LIMITED, or by an increase of exactly 1, in a mark_error or a
\* mark_rate_limited step.
C14_ErrorCountChangesAmended ==
    [][\A i \in Indices :
          \/ keys'[i].error_count = keys[i].error_count
          \/ /\ keys'[i].error_count = 0
             /\ \E t \in Callers :
                   \/ pc[t] = "mark_success_body" /\ pc'[t] = "idle"
                      /\ key[t] = i
                   \/ Returns(t) /\ cand[t] = i
                      /\ keys[i].status = "rate_limited"
          \/ /\ keys'[i].error_count = keys[i].error_count + 1
             /\ \E t \in Callers :
                   /\ pc[t] \in {"mark_error", "mark_rate_limited"}
                   /\ pc'[t] = "sleep"
                   /\ key[t] = i]_vars

C14_Witness ==
    \E i \in Indices :
        /\ keys[i].status = "available"
        /\ keys[i].cooldown_until > 0
        /\ keys[i].error_count = 0
        /\ keys[i].last_used = 0

\* C15: with a non-empty pool the cursor is an index of the pool in every
\* reachable state.
C15_CursorInRange == nkeys > 0 => current_index \in 0..(nkeys - 1)

C15_Witness ==
    /\ nkeys = MaxKeys
    /\ current_index = 0
    /\ \E t \in Callers : pc[t] = "get_client" /\ cand[t] = nkeys - 1

\* C16: every entry of the dict get_status builds is a (status, error_count)
\* pair that its credential held at some moment since the call began.
C16_NoTornRead ==
    \A i \in 1..Len(snapshot) : snapshot[i] \in held[i - 1]

\* C17: on the pool [A, B, C] with the cursor at 0 and one caller, the first
\* selection is A and a rate-limit failure leaves A RATE_LIMITED for
\* RATE_LIMIT_COOLDOWN; the second is B and a success leaves B AVAILABLE with
\* error_count 0; the third is C and a resource-exhaustion failure leaves C
\* RATE_LIMITED for RESOURCE_COOLDOWN; the fourth, on a clock reading less
\* than RATE_LIMIT_COOLDOWN after A was marked, is B, A staying RATE_LIMITED.
C17_Scenario ==
    LET RateLimit == {"429", "quota"}
        Resource == {"resource", "exhausted"}
        n == Len(log)
        done(i) == n >= i /\ log[i].marked_at # Unbound
        one == done(1) /\ log[1].outcome = RateLimit
        two == one /\ done(2) /\ log[2].outcome = {"success"}
        three == two /\ done(3) /\ log[3].outcome = Resource
    IN  /\ n >= 1 => log[1].key = 0
        /\ (one /\ n = 1) =>
              /\ keys[0].status = "rate_limited"
              /\ keys[0].cooldown_until
                    = log[1].marked_at + RATE_LIMIT_COOLDOWN
        /\ (one /\ n >= 2) => log[2].key = 1
        /\ (two /\ n = 2) =>
              keys[1].status = "available" /\ keys[1].error_count = 0
        /\ (two /\ n >= 3) => log[3].key = 2
        /\ (three /\ n = 3) =>
              /\ keys[2].status = "rate_limited"
              /\ keys[2].cooldown_until
                    = log[3].marked_at + RESOURCE_COOLDOWN
        /\ (three /\ n >= 4
            /\ log[4].at < log[1].marked_at + RATE_LIMIT_COOLDOWN) =>
              /\ log[4].key = 1
              /\ log[4].outcome = {"pending"} =>
                    /\ keys[0].status = "rate_limited"
                    /\ keys[1].status = "available"

C17_Witness ==
    /\ Len(log) = 4
    /\ log[1].outcome = {"429", "quota"} /\ log[1].key = 0
    /\ log[2].outcome = {"success"} /\ log[2].key = 1
    /\ log[3].outcome = {"resource", "exhausted"} /\ log[3].key = 2
    /\ log[3].marked_at # Unbound
    /\ log[4].at < log[1].marked_at + RATE_LIMIT_COOLDOWN
    /\ log[4].key = 1
    /\ log[4].outcome = {"pending"}
    /\ keys[0].status = "rate_limited"
    /\ keys[2].status = "rate_limited"

\* C18: self.models never changes, and the model name get_model hands to a
\* call is the one self.models maps the call's purpose to when the purpose is
\* one of its keys, and the one it maps "fallback" to for any other purpose;
\* every call that reaches the service has a model name.
C18_PurposeResolution ==
    /\ models = Models
    /\ \A t \in Callers :
          /\ pc[t] = "generate_content" => model_name[t] # ""
          /\ model_name[t] # "" =>
                /\ purpose[t] \in {"orchestrator", "vision", "fallback",
                                   "creative"}
                      => model_name[t] = "gemini-3-flash-preview"
                /\ purpose[t] = "pro"
                      => model_name[t] = "gemini-3-pro-preview"
                /\ purpose[t] \notin {"orchestrator", "vision", "fallback",
                                      "creative", "pro"}
                      => model_name[t] = Models["fallback"]

C18_Witness ==
    /\ \E t \in Callers :
          /\ pc[t] = "generate_content"
          /\ purpose[t] = "high-capability"
          /\ model_name[t] = "gemini-3-flash-preview"

\* C19: with "eligible" meaning AVAILABLE, or RATE_LIMITED with the scan's
\* clock reading at or after cooldown_until: every credential a scan has passed
\* over is not eligible, the credential get_next_key returns is eligible and
\* is the next in rotation order after those passed over, and get_next_key
\* returns None only when no credential of the pool is eligible.
C19_FirstEligible ==
    /\ [](LET Eligible(i, ct) ==
                  \/ keys[i].status = "available"
                  \/ keys[i].status = "rate_limited"
                     /\ ct >= keys[i].cooldown_until
              Passed(t) ==
                  {(scan_from[t] + j) % nkeys : j \in 0..(attempts[t] - 1)}
          IN  \A t \in Callers :
                  pc[t] \in {"while", "advance"} =>
                      \A i \in Passed(t) : ~Eligible(i, current_time[t]))
    /\ [][LET Eligible(i, ct) ==
                  \/ keys[i].status = "available"
                  \/ keys[i].status = "rate_limited"
                     /\ ct >= keys[i].cooldown_until
          IN  \A t \in Callers :
                  /\ Returns(t) =>
                        /\ Eligible(cand[t], current_time[t])
                        /\ cand[t] = (scan_from[t] + attempts[t]) % nkeys
                  /\ (pc[t] = "while" /\ pc'[t] = "except") =>
                        \A i \in Indices :
                            ~Eligible(i, current_time[t])]_vars

\* C20: during a get_next_key call that began with the cursor at c and has
\* passed over j credentials the cursor is (c + j) mod N; when it returns the
\* k-th credential it examined the cursor is (c + k) mod N; when it returns
\* None it has examined all N and the cursor is c again; a step of get_client,
\* mark_success, mark_rate_limited or mark_error leaves the cursor unchanged.
C20_CursorMoves ==
    /\ [](\A t \in Callers :
            pc[t] \in {"while", "advance"} =>
                current_index = (scan_from[t] + attempts[t]) % nkeys)
    /\ [][\A t \in Callers :
            /\ Returns(t) =>
                  current_index' = (scan_from[t] + attempts[t] + 1) % nkeys
            /\ (pc[t] = "while" /\ pc'[t] = "except") =>
                  attempts[t] = nkeys /\ current_index' = scan_from[t]
            /\ (/\ pc[t] \in {"get_client", "new_client", "mark_success",
                              "mark_success_body", "mark_rate_limited",
                              "mark_error"}
                /\ pc'[t] # pc[t]) =>
                  current_index' = current_index]_vars

C20_Witness ==
    /\ nkeys = MaxKeys
    /\ current_index = 1
    /\ \E t \in Callers :
          /\ pc[t] = "except"
          /\ exc[t] = PoolExhaustedText
          /\ attempt[t] > 0

\* C21: a step that changes a credential's status to ERROR happens only when
\* the credential has received at least ERROR_THRESHOLD mark_error calls,
\* that step's included, since its last mark_success or cooldown recovery.
C21_ErrorOnlyAfterThree ==
    [][\A i \in Indices :
          (keys[i].status # "error" /\ keys'[i].status = "error") =>
              mark_errors'[i] >= ERROR_THRESHOLD]_vars

\* C22: at every mark_success step of call_with_retry the credential is
\* AVAILABLE before the step and after it.
C22_SuccessOnAvailable ==
    [][\A t \in Callers :
          (pc[t] = "mark_success_body" /\ pc'[t] = "idle") =>
              /\ keys[key[t]].status = "available"
              /\ keys'[key[t]].status = "available"]_vars

\* C23: a mark step of an attempt changes no credential but the one
\* get_next_key returned in that attempt, and in an attempt whose get_next_key
\* returned None (the handled exception is the one get_model raises) it
\* changes no credential's status, error_count or cooldown_until.
C23_MarksOnlySelected ==
    [][\A t \in Callers :
          (pc[t] \in {"mark_rate_limited", "mark_error"}
           /\ pc'[t] = "sleep") =>
              /\ \A i \in Indices \ {key[t]} : keys'[i] = keys[i]
              /\ exc[t] = PoolExhaustedText =>
                    \A i \in Indices :
                        /\ keys'[i].status = keys[i].status
                        /\ keys'[i].error_count = keys[i].error_count
                        /\ keys'[i].cooldown_until
                              = keys[i].cooldown_until]_vars

\* C24: an attempt whose get_next_key returned None calls no service and does
\* not end the call: the handler's step leaves call_with_retry running, with
\* no result yet, on the way to the sleep and the next attempt.
C24_PoolExhaustedContinues ==
    [][\A t \in Callers :
          (pc[t] = "except" /\ exc[t] = PoolExhaustedText
           /\ pc'[t] # "except") =>
              /\ pc'[t] # "idle"
              /\ result'[t] = "NoResult"
              /\ invoked'[t] = invoked[t]]_vars

\* C25: the handler sends every failure of the service to a mark operation,
\* and the mark step's effect on the credential follows the failure text: a
\* rate-limit text (quota, rate, 429) gives RATE_LIMITED with cooldown_until
\* = now + 60; a resource-exhaustion text (resource, exhausted) without a
\* rate-limit word gives RATE_LIMITED with cooldown_until = now + 300; any
\* other text adds 1 to error_count, leaves cooldown_until, and makes the
\* status ERROR exactly when the new count is 3 or more.
C25_ClassificationDrives ==
    [][\A t \in Callers :
          LET k == key[t]
              RateLimit == exc[t] \cap {"quota", "rate", "429"} # {}
              Resource == /\ ~RateLimit
                          /\ exc[t] \cap {"resource", "exhausted"} # {}
          IN  /\ (pc[t] = "except" /\ pc'[t] # "except" /\ k # Unbound) =>
                    pc'[t] \in {"mark_rate_limited", "mark_error"}
              /\ (/\ pc[t] \in {"mark_rate_limited", "mark_error"}
                  /\ pc'[t] = "sleep"
                  /\ exc[t] # PoolExhaustedText) =>
                    /\ RateLimit =>
                          /\ keys'[k].status = "rate_limited"
                          /\ keys'[k].cooldown_until = now' + 60
                    /\ Resource =>
                          /\ keys'[k].status = "rate_limited"
                          /\ keys'[k].cooldown_until = now' + 300
                    /\ (~RateLimit /\ ~Resource) =>
                          /\ keys'[k].error_count = keys[k].error_count + 1
                          /\ keys'[k].cooldown_until = keys[k].cooldown_until
                          /\ keys'[k].status =
                                IF keys'[k].error_count >= 3
                                THEN "error" ELSE keys[k].status]_vars

C25_Witness ==
    \E i \in Indices :
        /\ keys[i].status = "rate_limited"
        /\ keys[i].cooldown_until >= 300
        /\ \E j \in Indices :
              keys[j].status = "available" /\ keys[j].error_count = 1

\* C26: with one caller, when an attempt of a call follows an earlier attempt
\* of the same call and at least two credentials are selectable at its scan
\* (AVAILABLE, or RATE_LIMITED with the scan's clock reading past
\* cooldown_until), the credential it gets is not the one of the earlier
\* attempt.
C26_RotationOnFailure ==
    [][\A t \in Solo :
          (/\ Returns(t)
           /\ key[t] # Unbound
           /\ Cardinality({i \in Indices :
                  \/ keys[i].status = "available"
                  \/ keys[i].status = "rate_limited"
                     /\ current_time[t] > keys[i].cooldown_until}) >= 2)
          => cand[t] # key[t]]_vars

C26_Witness ==
    \E t \in Solo :
        /\ pc[t] = "get_client"
        /\ key[t] # Unbound
        /\ cand[t] # key[t]
        /\ keys[key[t]].status = "available"
        /\ keys[key[t]].error_count = 1

\* C27: every error_count is at least 0, and a credential whose status is
\* AVAILABLE has error_count at most 2.
C27_AvailableBelowThreshold ==
    \A i \in Indices :
        /\ keys[i].error_count >= 0
        /\ keys[i].status = "available" => keys[i].error_count <= 2

C27_Witness ==
    \E i \in Indices :
        keys[i].status = "available" /\ keys[i].error_count = 2

\* C28: no credential goes unexamined through N completed get_next_key calls
\* in a row, and a get_next_key call that examines a RATE_LIMITED credential
\* on a clock reading at or after its cooldown_until leaves it AVAILABLE; so
\* a credential whose cooldown has elapsed is AVAILABLE within N further
\* get_next_key calls.
C28_NoStarvation ==
    /\ [](\A i \in Indices : missed[i] < nkeys)
    /\ [][\A t \in Callers :
            (/\ pc[t] = "advance"
             /\ pc'[t] # "advance"
             /\ keys[cand[t]].status = "rate_limited"
             /\ current_time[t] >= keys[cand[t]].cooldown_until)
            => keys'[cand[t]].status = "available"]_vars

=============================================================================
